---- MODULE Spec2Model ----
(***************************************************************************)
(* Model of streamlit_supply_tracker.py: the catalog file and its cached   *)
(* read, the order log, the last-order snapshot, the people list, and the  *)
(* button handlers that read and write them.                               *)
(*                                                                         *)
(* Encodings.  A text (str) is a sequence of one-character strings.  A     *)
(* product-number cell is a record [k, n, s]: k = "int" for a numeric cell *)
(* with value n, k = "str" for a text cell with text s, k = "na" for a     *)
(* missing cell (pd.NA / NaN).  A timestamp text "%Y-%m-%d %H:%M:%S" is    *)
(* encoded by the number of its second (>= 1); BadStamp encodes a text     *)
(* that pd.to_datetime cannot parse.                                       *)
(***************************************************************************)
EXTENDS Integers, Sequences, FiniteSets, TLC

\* ------------------------------------------------------------------ bounds
MaxCat == 2
MaxLog == 2
MaxClock == 2
MaxPresses == 4
MaxBlocks == 2
SheetRows == 6

\* ------------------------------------------------------------ text helpers
Range(s) == {s[i] : i \in 1..Len(s)}

WS == {" ", "\t"}

Digits == <<"0", "1", "2", "3", "4", "5", "6", "7", "8", "9">>

IsDigit(c) == \E d \in 1..Len(Digits) : Digits[d] = c

DigitVal(c) == (CHOOSE d \in 1..Len(Digits) : Digits[d] = c) - 1

RECURSIVE LStrip(_)
LStrip(s) == IF s # <<>> /\ Head(s) \in WS THEN LStrip(Tail(s)) ELSE s

RECURSIVE RStrip(_)
RStrip(s) ==
    IF s # <<>> /\ s[Len(s)] \in WS THEN RStrip(SubSeq(s, 1, Len(s) - 1)) ELSE s

\* str.strip()
Strip(s) == RStrip(LStrip(s))

\* str.replace(r"\s+", " ", regex=True): every run of whitespace becomes " "
RECURSIVE CollapseWS(_)
CollapseWS(s) ==
    IF s = <<>> THEN <<>>
    ELSE IF Head(s) \in WS
         THEN <<" ">> \o CollapseWS(LStrip(s))
         ELSE <<Head(s)>> \o CollapseWS(Tail(s))

\* the value of a text of decimal digits, -1 for any other text
RECURSIVE ParseNat(_)
ParseNat(s) ==
    IF s = <<>> THEN -1
    ELSE IF ~IsDigit(s[Len(s)]) THEN -1
    ELSE IF Len(s) = 1 THEN DigitVal(s[1])
    ELSE LET hi == ParseNat(SubSeq(s, 1, Len(s) - 1))
         IN  IF hi < 0 THEN -1 ELSE 10 * hi + DigitVal(s[Len(s)])

\* str(n) for a natural number
RECURSIVE NatStr(_)
NatStr(n) ==
    IF n < 10 THEN <<Digits[n + 1]>>
    ELSE NatStr(n \div 10) \o <<Digits[(n % 10) + 1]>>

\* ------------------------------------------------------ product-number cells
NA == [k |-> "na", n |-> 0, s |-> <<>>]

IntPN(n) == [k |-> "int", n |-> n, s |-> <<>>]

StrPN(s) == [k |-> "str", n |-> 0, s |-> s]

\* pd.to_numeric(cell, errors="coerce"), then .astype("Int64")
ToInt64(p) ==
    IF p.k = "int" THEN p
    ELSE IF p.k = "str" /\ ParseNat(p.s) >= 0 THEN IntPN(ParseNat(p.s))
    ELSE NA

\* str(cell) of an Int64 / object cell, as .astype(str) and str() give it
PNStr(p) ==
    IF p.k = "int" THEN NatStr(p.n)
    ELSE IF p.k = "str" THEN p.s
    ELSE <<"<", "N", "A", ">">>

\* ------------------------------------------------------------- data frames
\* DataFrame.drop_duplicates(subset, keep="first"), the subset given as a key
DropDupFirst(rows, keys) ==
    LET keep == {i \in 1..Len(rows) : \A j \in 1..(i - 1) : keys[j] # keys[i]}
        F[i \in 0..Len(rows)] ==
            IF i = 0 THEN <<>>
            ELSE IF i \in keep THEN Append(F[i - 1], rows[i]) ELSE F[i - 1]
    IN  F[Len(rows)]

\* DataFrame.drop_duplicates(subset, keep="last")
DropDupLast(rows, keys) ==
    LET keep == {i \in 1..Len(rows) :
                    \A j \in (i + 1)..Len(rows) : keys[j] # keys[i]}
        F[i \in 0..Len(rows)] ==
            IF i = 0 THEN <<>>
            ELSE IF i \in keep THEN Append(F[i - 1], rows[i]) ELSE F[i - 1]
    IN  F[Len(rows)]

\* df[mask]: the rows whose mask entry is TRUE, in order
Filter(rows, mask) ==
    LET F[i \in 0..Len(rows)] ==
            IF i = 0 THEN <<>>
            ELSE IF mask[i] THEN Append(F[i - 1], rows[i]) ELSE F[i - 1]
    IN  F[Len(rows)]

Count(rows, r) == Cardinality({i \in 1..Len(rows) : rows[i] = r})

MaxOf(S) == CHOOSE x \in S : \A y \in S : y <= x

\* ---------------------------------------------------------- clean_catalog
\* the numeric-density threshold max(5, len(series) * 0.1) of clean_catalog
MinNumeric == 5

UpperCase == <<"A", "B", "N">>

LowerCase == <<"a", "b", "n">>

\* str.lower() on one character
LowerChar(c) ==
    IF \E u \in 1..Len(UpperCase) : UpperCase[u] = c
    THEN LowerCase[CHOOSE u \in 1..Len(UpperCase) : UpperCase[u] = c]
    ELSE c

Lower(s) == [i \in 1..Len(s) |-> LowerChar(s[i])]

NanText == <<"n", "a", "n">>

\* a column read by pd.read_csv is float64 when it holds numbers and blanks only
IsFloatColumn(col) ==
    /\ \A r \in 1..Len(col) : col[r].k \in {"int", "na"}
    /\ \E r \in 1..Len(col) : col[r].k = "na"

\* df.iloc[:, i].astype(str).str.strip(), one cell
CellStr(col, cell) ==
    IF cell.k = "na" THEN NanText
    ELSE IF cell.k = "str" THEN Strip(cell.s)
    ELSE IF IsFloatColumn(col) THEN NatStr(cell.n) \o <<".", "0">>
    ELSE NatStr(cell.n)

\* pd.to_numeric(series, errors="coerce").notna().sum()
NumericLike(col) == Cardinality({r \in 1..Len(col) : ToInt64(col[r]).k = "int"})

\* numeric_like >= max(5, len(series) * 0.1)
IsProductColumn(col) ==
    /\ NumericLike(col) >= MinNumeric
    /\ 10 * NumericLike(col) >= Len(col)

\* the for loop over candidate_idxs: the first accepted of i+1, i+2, i+3; 0 for None
ChosenProdIdx(df, i) ==
    LET cand == {j \in (i + 1)..(i + 3) : j <= Len(df) /\ IsProductColumn(df[j])}
    IN  IF cand = {} THEN 0 ELSE CHOOSE j \in cand : \A m \in cand : j <= m

\* the rows appended for the pair (name column i, product column c)
PairRows(df, i, c) ==
    LET name(r) == CellStr(df[i], df[i][r])
        prod(r) == ToInt64(df[c][r])
        ok(r) == name(r) # <<>> /\ Lower(name(r)) # NanText /\ prod(r).k = "int"
        F[r \in 0..Len(df[i])] ==
            IF r = 0 THEN <<>>
            ELSE IF ok(r)
                 THEN Append(F[r - 1], [item |-> name(r), product_number |-> prod(r)])
                 ELSE F[r - 1]
    IN  F[Len(df[i])]

\* the step of the cursor after a pair was emitted at i: i += 2
CursorAfterPair(i, c) == i + 2

\* the while loop of clean_catalog from cursor i (columns are numbered from 1)
RECURSIVE ScanColumns(_, _)
ScanColumns(df, i) ==
    IF i > Len(df) THEN <<>>
    ELSE LET c == ChosenProdIdx(df, i)
         IN  IF c # 0
             THEN PairRows(df, i, c) \o ScanColumns(df, CursorAfterPair(i, c))
             ELSE ScanColumns(df, i + 1)

\* lines 77-84 of clean_catalog: drop_duplicates, whitespace collapse, the
\* empty-name filter, current_qty = 0 and sort_order = range(len(tidy))
TidyFrame(tidy_rows) ==
    LET raw == DropDupFirst(tidy_rows, tidy_rows)
        named == [k \in 1..Len(raw) |->
                    [item |-> Strip(CollapseWS(raw[k].item)),
                     product_number |-> raw[k].product_number]]
        kept == Filter(named, [k \in 1..Len(named) |-> Len(named[k].item) > 0])
    IN  [k \in 1..Len(kept) |->
            [item |-> kept[k].item, product_number |-> kept[k].product_number,
             current_qty |-> 0, sort_order |-> k - 1]]

\* clean_catalog(df): df is the sequence of the sheet's columns
clean_catalog(df) == TidyFrame(ScanColumns(df, 1))

\* ------------------------------------------------------------ catalog file
\* read_catalog(): the rows of catalog.csv coerced into the schema
read_catalog(file) ==
    [k \in 1..Len(file) |-> [file[k] EXCEPT !.product_number = ToInt64(@)]]

\* write_catalog(df): the rows written to catalog.csv
write_catalog(df) ==
    [k \in 1..Len(df) |-> [df[k] EXCEPT !.product_number = ToInt64(@)]]

CatKey(r) == <<r.item, r.product_number>>

\* next_order = (cat["sort_order"].max() + 1) if not cat.empty else 0
NextOrder(c) ==
    IF c = <<>> THEN 0 ELSE MaxOf({c[k].sort_order : k \in 1..Len(c)}) + 1

\* the frame the 'Add item' handler passes to write_catalog
AddItemFrame(c, item, prod, qty) ==
    LET both == Append(c, [item |-> item, product_number |-> StrPN(prod),
                           current_qty |-> qty, sort_order |-> NextOrder(c)])
    IN  DropDupLast(both, [k \in 1..Len(both) |-> CatKey(both[k])])

\* cat[~cat["item"].isin(to_remove)]
RemoveFrame(c, to_remove) ==
    Filter(c, [k \in 1..Len(c) |-> c[k].item \notin to_remove])

\* ------------------------------------------------------------------ orders
Placeholder ==
    <<"(", "a", "d", "d", " ", "n", "a", "m", "e", "s", " ", "i", "n", " ",
      "s", "i", "d", "e", "b", "a", "r", ")">>

\* chosen = edited_df[edited_df["qty"] > 0] projected to item, product_number, qty
ChosenRows(c, qtys) ==
    LET F[k \in 0..Len(c)] ==
            IF k = 0 THEN <<>>
            ELSE IF qtys[k] > 0
                 THEN Append(F[k - 1], [item |-> c[k].item,
                                        product_number |-> c[k].product_number,
                                        qty |-> qtys[k]])
                 ELSE F[k - 1]
    IN  F[Len(c)]

\* not people or orderer == "(add names in sidebar)"
NoOrderer(ppl, who) == ppl = <<>> \/ who = Placeholder

\* the verdict without the orderer test
OrderVerdictQtyOnly(c, qtys, ppl, who) ==
    IF ChosenRows(c, qtys) = <<>> THEN "empty" ELSE "ok"

\* _make_order_df_from: "empty", "orderer" for the two rejections, "ok" otherwise
OrderVerdict(c, qtys, ppl, who) ==
    IF ChosenRows(c, qtys) = <<>> THEN "empty"
    ELSE IF NoOrderer(ppl, who) THEN "orderer"
    ELSE "ok"

\* datetime.now().strftime("%Y-%m-%d %H:%M:%S")
Strftime(t) == t

\* save_last_order: the rows written to last_order.csv
LastOrderRows(batch, who, t) ==
    [k \in 1..Len(batch) |->
        [item |-> batch[k].item, product_number |-> batch[k].product_number,
         qty |-> batch[k].qty, generated_at |-> Strftime(t), orderer |-> who]]

\* append_log: df, the batch with ordered_at and orderer attached
LogRows(batch, who, t) ==
    [k \in 1..Len(batch) |->
        [item |-> batch[k].item, product_number |-> batch[k].product_number,
         qty |-> batch[k].qty, ordered_at |-> Strftime(t), orderer |-> who]]

\* safe_read_csv(LOG_PATH): the rows, or an empty frame when the read raises
safe_read_log(file, readOk) == IF readOk THEN file ELSE <<>>

\* append_log: the rows written back to order_log.csv
append_log(prev, df) ==
    IF prev # <<>>
    THEN LET combined == [k \in 1..(Len(prev) + Len(df)) |->
                             [(prev \o df)[k] EXCEPT !.product_number = ToInt64(@)]]
         IN  DropDupFirst(combined, combined)
    ELSE df

\* the difference left unclipped
NoClip(x) == x

\* .clip(lower=0)
ClipLower0(x) == IF x < 0 THEN 0 ELSE x

\* one pass of the decrement loop: the rows matching line r lose r.qty
DecrementLine(c, r) ==
    [k \in 1..Len(c) |->
        IF c[k].item = r.item /\ PNStr(c[k].product_number) = PNStr(r.product_number)
        THEN [c[k] EXCEPT !.current_qty = ClipLower0(@ - r.qty)]
        ELSE c[k]]

\* the decrement loop of _save_and_log over the batch, from cat2 = cat.copy()
RECURSIVE DecrementAll(_, _)
DecrementAll(c, batch) ==
    IF batch = <<>> THEN c
    ELSE DecrementAll(DecrementLine(c, Head(batch)), Tail(batch))

\* the decrement placed ahead of the log append
DecrementFirst(dec) == IF dec THEN "decrement" ELSE "append_log"

\* the position of _save_and_log after each of its statements
AfterSnapshot(dec) == "append_log"

AfterAppend(dec) == IF dec THEN "decrement" ELSE "idle"

\* ------------------------------------------------------------------ people
\* the characters of the model's texts, in code-point order ("-" stands for the
\* em dash of the clear-history labels, which sorts after the ASCII letters)
Alphabet ==
    <<"\t", " ", "(", ")", ".", "0", "1", "2", "3", "4", "5", "6", "7", "8", "9",
      "<", ">", "A", "B", "N", "a", "b", "d", "e", "i", "m", "n", "r", "s", "x", "-">>

CharRank(c) == CHOOSE i \in 1..Len(Alphabet) : Alphabet[i] = c

\* Python's str comparison, s < t
RECURSIVE TextLess(_, _)
TextLess(s, t) ==
    IF t = <<>> THEN FALSE
    ELSE IF s = <<>> THEN TRUE
    ELSE IF Head(s) # Head(t) THEN CharRank(Head(s)) < CharRank(Head(t))
    ELSE TextLess(Tail(s), Tail(t))

\* sorted(set(...))
RECURSIVE Sorted(_)
Sorted(S) ==
    IF S = {} THEN <<>>
    ELSE LET m == CHOOSE x \in S : \A y \in S \ {x} : TextLess(x, y)
         IN  <<m>> \o Sorted(S \ {m})

\* the 'Add to list' handler: people.append(p); sorted(set(people))
AddPersonList(ppl, p) == Sorted(Range(ppl) \cup {p})

\* the 'Remove' handler: [p for p in people if p != remove_person]
RemovePersonList(ppl, p) == Filter(ppl, [k \in 1..Len(ppl) |-> ppl[k] # p])

\* ------------------------------------------------------------ clear history
Dash == <<" ", "-", " ">>

\* f"{r['item']} - {r['product_number']}" on a row of the order table
TableLabel(r) == r.item \o Dash \o PNStr(r.product_number)

\* str() of a product_number cell of the log as pd.read_csv types the column
LogPNStr(logs, cell) ==
    IF cell.k = "na" THEN NanText
    ELSE IF \E k \in 1..Len(logs) : logs[k].product_number.k = "na"
         THEN NatStr(cell.n) \o <<".", "0">>
         ELSE NatStr(cell.n)

\* the same f-string on a row of the log as read
LogLabel(logs, r) == r.item \o Dash \o LogPNStr(logs, r.product_number)

\* logs[keep]: the rows whose label is not selected
ClearSelectedRows(logs, sel) ==
    Filter(logs, [k \in 1..Len(logs) |-> LogLabel(logs, logs[k]) \notin sel])

\* a frame holding the column names as its one data row
HeaderAsRow ==
    <<[item |-> <<"i", "t", "e", "m">>, product_number |-> NA, qty |-> 0,
       ordered_at |-> 0, orderer |-> <<"o", "r", "d", "e", "r", "e", "r">>]>>

\* pd.DataFrame(columns=ORDER_LOG_COLUMNS): what 'Clear ALL history' writes
EmptyLogFrame == <<>>

\* pd.DataFrame(columns=LAST_ORDER_COLUMNS)
EmptyLastOrderFrame == <<>>

\* ---------------------------------------------------- last_order_info_map
\* the ordered_at of a row whose text pd.to_datetime(errors="coerce") turns to NaT
BadStamp == 0

\* logs.dropna(subset=["ordered_at"]) after the coercion
ParseableRows(logs) ==
    Filter(logs, [k \in 1..Len(logs) |-> logs[k].ordered_at # BadStamp])

\* the orders in which n rows can be laid out
Perms(n) ==
    {p \in [1..n -> 1..n] : \A i, j \in 1..n : i # j => p[i] # p[j]}

\* logs.sort_values("ordered_at") with the default kind="quicksort": the rows in
\* non-decreasing ordered_at, rows of equal ordered_at in an order the sort
\* leaves open
SortValues(rows) ==
    {[k \in 1..Len(rows) |-> rows[p[k]]] :
        p \in {q \in Perms(Len(rows)) :
                  \A i, j \in 1..Len(rows) :
                      i < j => rows[q[i]].ordered_at <= rows[q[j]].ordered_at}}

\* groupby(["item", "product_number"], as_index=False).tail(1): the last row of
\* each group, in frame order; dropna=True leaves out the rows whose key is NA
GroupTail(rows) ==
    LET last(k) ==
            /\ rows[k].product_number # NA
            /\ \A m \in (k + 1)..Len(rows) :
                  ~(rows[m].item = rows[k].item
                    /\ rows[m].product_number = rows[k].product_number)
        F[k \in 0..Len(rows)] ==
            IF k = 0 THEN <<>>
            ELSE IF last(k) THEN Append(F[k - 1], rows[k]) ELSE F[k - 1]
    IN  F[Len(rows)]

\* idx[[...]].rename(columns={"ordered_at": "last_ordered_at", "qty": "last_qty"})
RenameInfo(rows) ==
    [k \in 1..Len(rows) |->
        [item |-> rows[k].item, product_number |-> rows[k].product_number,
         last_ordered_at |-> rows[k].ordered_at, last_qty |-> rows[k].qty]]

\* last_order_info_map(): the frames it can return for the log read
last_order_info_map(logs) ==
    {RenameInfo(GroupTail(sorted)) : sorted \in SortValues(ParseableRows(logs))}

\* ------------------------------------------------------------------- state
VARIABLES
    catalog_csv,     \* rows of data/catalog.csv
    cat,             \* the value st.cache_data holds for read_catalog()
    order_log_csv,   \* rows of data/order_log.csv
    last_order_csv,  \* rows of data/last_order.csv
    people,          \* lines of data/people.txt
    clock,           \* the wall clock, in seconds
    presses,         \* button presses handled so far
    msg,             \* the last st.success / st.error / st.info of a handler, or "raised"
    last_add,        \* history: the inputs of the last accepted 'Add item'
    pc,              \* position of a running _save_and_log, "idle" outside it
    odf,             \* _save_and_log's order_df
    orderer,         \* the orderer of the running _save_and_log
    do_decrement,    \* _save_and_log's do_decrement
    call,            \* argument of a function applied on its own
    result           \* its result

vars ==
    <<catalog_csv, cat, order_log_csv, last_order_csv, people, clock, presses, msg,
      last_add, pc, odf,
      orderer, do_decrement, call, result>>

files == <<catalog_csv, order_log_csv, last_order_csv, people>>

NoAdd == [item |-> <<>>, prod |-> <<>>, qty |-> 0]

NoCall == [fn |-> "none"]

Pending == <<[pending |-> TRUE]>>

\* ------------------------------------------------------------------ inputs
\* st.number_input(min_value=0) and the inventory editor's NumberColumn(min_value=0)
StockInputs == {0, 1, 3}

\* the order editor's NumberColumn("Qty", min_value=0)
QtyInputs == {0, 2}

ItemInputs == {<<"a">>, <<"b">>, <<" ">>}

ProdInputs == {<<"1">>, <<"x">>}

PersonInputs == {<<"A">>, <<" ">>}

TextColumn(texts) == [r \in 1..Len(texts) |-> StrPN(texts[r])]

NumberColumn(nums) == [r \in 1..Len(nums) |-> IntPN(nums[r])]

\* the sheets offered to the uploader
Uploads ==
    { << TextColumn([r \in 1..MinNumeric |-> <<"a">>]),
         NumberColumn([r \in 1..MinNumeric |-> 1]) >>,
      << TextColumn([r \in 1..MinNumeric |-> IF r % 2 = 1 THEN <<"a">> ELSE <<"b">>]),
         NumberColumn([r \in 1..MinNumeric |-> 1]) >>,
      << TextColumn([r \in 1..MinNumeric |->
                        IF r = 1 THEN <<"a", " ", " ", "b">> ELSE <<"a", " ", "b">>]),
         NumberColumn([r \in 1..MinNumeric |-> 1]) >>,
      << TextColumn([r \in 1..MinNumeric |-> <<"a">>]),
         TextColumn([r \in 1..MinNumeric |-> <<"x">>]) >> }

\* -------------------------------------------------------------------- Init
\* data/ holds no catalog and no people file; safe_ensure_file_with_header has
\* written the two header-only files; the first run has cached read_catalog()
InitApp ==
    /\ catalog_csv = <<>>
    /\ cat = <<>>
    /\ order_log_csv = <<>>
    /\ last_order_csv = <<>>
    /\ people = <<>>
    /\ clock = 1
    /\ presses = 0
    /\ msg = ""
    /\ last_add = NoAdd
    /\ pc = "idle"
    /\ odf = <<>>
    /\ orderer = <<>>
    /\ do_decrement = FALSE

Init == InitApp /\ call = NoCall /\ result = Pending

commit_locals == <<pc, odf, orderer, do_decrement>>

harness == <<call, result>>

\* datetime.now(): dt seconds have passed since the clock was last read
ReadClock(dt) ==
    /\ clock + dt <= MaxClock
    /\ clock' = clock + dt

\* a button press starts a script run; no other run is in progress
Press ==
    /\ pc = "idle"
    /\ presses < MaxPresses
    /\ presses' = presses + 1

\* ----------------------------------------------------------------- sidebar
\* 'Initialize / Replace Catalog': init_catalog, st.cache_data.clear(), st.rerun()
InitCatalog(up) ==
    /\ Press
    /\ msg' = IF clean_catalog(up) = <<>> THEN "Uploaded file couldn't be parsed" ELSE "Catalog created"
    /\ last_add' = NoAdd
    /\ Len(clean_catalog(up)) <= MaxCat
    /\ catalog_csv' = IF clean_catalog(up) = <<>> THEN catalog_csv ELSE clean_catalog(up)
    /\ cat' = read_catalog(catalog_csv')
    /\ UNCHANGED <<order_log_csv, last_order_csv, people, clock, commit_locals, harness>>

\* the same button with no file in the uploader
InitCatalogNoUpload ==
    /\ Press
    /\ msg' = IF catalog_csv = <<>> THEN "No catalog found" ELSE ""
    /\ last_add' = NoAdd
    /\ cat' = read_catalog(catalog_csv)
    /\ UNCHANGED <<files, clock, commit_locals, harness>>

\* 'Add to list'
AddPerson(p) ==
    /\ Press
    /\ msg' = IF Strip(p) # <<>> THEN "Added person" ELSE ""
    /\ last_add' = NoAdd
    /\ people' = IF Strip(p) # <<>> THEN AddPersonList(people, Strip(p)) ELSE people
    /\ UNCHANGED <<catalog_csv, cat, order_log_csv, last_order_csv, clock,
                   commit_locals, harness>>

\* 'Remove'
RemovePerson(p) ==
    /\ Press
    /\ msg' = "Removed person"
    /\ last_add' = NoAdd
    /\ p \in Range(people)
    /\ people' = RemovePersonList(people, p)
    /\ UNCHANGED <<catalog_csv, cat, order_log_csv, last_order_csv, clock,
                   commit_locals, harness>>

\* ------------------------------------------------------------- catalog tab
\* 'Reload catalog from disk': st.cache_data.clear(), st.rerun()
ReloadCatalog ==
    /\ Press
    /\ msg' = ""
    /\ last_add' = NoAdd
    /\ cat' = read_catalog(catalog_csv)
    /\ UNCHANGED <<files, clock, commit_locals, harness>>

\* 'Add item'
AddItem(new_item, new_prod, new_qty) ==
    /\ Press
    /\ IF Strip(new_item) # <<>> /\ Strip(new_prod) # <<>>
       THEN /\ Len(AddItemFrame(cat, Strip(new_item), Strip(new_prod), new_qty)) <= MaxCat
            /\ catalog_csv' =
                   write_catalog(AddItemFrame(cat, Strip(new_item), Strip(new_prod), new_qty))
            /\ msg' = "Added"
            /\ last_add' = [item |-> Strip(new_item), prod |-> Strip(new_prod),
                            qty |-> new_qty]
       ELSE /\ catalog_csv' = catalog_csv
            /\ msg' = "Please provide both Item and Product #."
            /\ last_add' = NoAdd
    /\ UNCHANGED <<cat, order_log_csv, last_order_csv, people, clock, commit_locals,
                   harness>>

\* 'Remove selected'
RemoveSelected(to_remove) ==
    /\ Press
    /\ msg' = "Removed item(s)"
    /\ last_add' = NoAdd
    /\ cat # <<>>
    /\ to_remove \subseteq {cat[k].item : k \in 1..Len(cat)}
    /\ catalog_csv' = write_catalog(RemoveFrame(cat, to_remove))
    /\ UNCHANGED <<cat, order_log_csv, last_order_csv, people, clock, commit_locals,
                   harness>>

\* ----------------------------------------------------------- inventory tab
\* 'Save changes': the editor's frame is the cached catalog with row k's
\* current_qty set to q (the editor admits q >= 0 only)
SaveChanges(k, q) ==
    /\ Press
    /\ msg' = "Inventory saved."
    /\ last_add' = NoAdd
    /\ k \in 1..Len(cat)
    /\ catalog_csv' = write_catalog([cat EXCEPT ![k].current_qty = q])
    /\ UNCHANGED <<cat, order_log_csv, last_order_csv, people, clock, commit_locals,
                   harness>>

\* --------------------------------------------------------------- order tab
\* the options of the 'Who is placing the order?' selectbox
OrdererOptions == IF people # <<>> THEN Range(people) ELSE {Placeholder}

\* 'Generate & Log Order' (dec = FALSE) and 'Generate, Log, & Decrement' (dec = TRUE)
\* up to the return of save_last_order; saved = FALSE when save_last_order raises.
\* The order table lists the cached catalog; its rows are taken in catalog order.
Generate(qtys, who, dec, saved, dt) ==
    /\ Press
    /\ ReadClock(dt)
    /\ cat # <<>>
    /\ who \in OrdererOptions
    /\ UNCHANGED <<catalog_csv, cat, order_log_csv, people, harness>>
    /\ last_add' = NoAdd
    /\ IF OrderVerdict(cat, qtys, people, who) = "ok" /\ ~saved
       THEN /\ msg' = "save_last_order raised"
            /\ UNCHANGED <<last_order_csv, commit_locals>>
       ELSE IF OrderVerdict(cat, qtys, people, who) = "ok"
       THEN /\ Len(order_log_csv) + Len(ChosenRows(cat, qtys)) <= MaxLog
            /\ last_order_csv' = LastOrderRows(ChosenRows(cat, qtys), who, clock')
            /\ pc' = AfterSnapshot(dec)
            /\ odf' = ChosenRows(cat, qtys)
            /\ orderer' = who
            /\ do_decrement' = dec
            /\ msg' = ""
       ELSE /\ msg' = IF OrderVerdict(cat, qtys, people, who) = "empty"
                      THEN "Please set Qty > 0 for at least one item."
                      ELSE "Please add/select an orderer in the sidebar first."
            /\ UNCHANGED <<last_order_csv, commit_locals>>

\* _save_and_log: append_log(order_df, orderer); readOk = FALSE when reading the
\* log raises inside safe_read_csv, written = FALSE when the final to_csv raises
AppendLogStep(readOk, written, dt) ==
    /\ pc = "append_log"
    /\ ReadClock(dt)
    /\ order_log_csv' =
          IF written
          THEN append_log(safe_read_log(order_log_csv, readOk),
                          LogRows(odf, orderer, clock'))
          ELSE order_log_csv
    /\ pc' = IF written THEN AfterAppend(do_decrement) ELSE "idle"
    /\ msg' = IF written THEN "" ELSE "append_log raised"
    /\ odf' = IF pc' = "idle" THEN <<>> ELSE odf
    /\ orderer' = IF pc' = "idle" THEN <<>> ELSE orderer
    /\ do_decrement' = IF pc' = "idle" THEN FALSE ELSE do_decrement
    /\ UNCHANGED <<catalog_csv, cat, last_order_csv, people, presses, last_add, harness>>

\* _save_and_log: the decrement of cat2 = cat.copy() and write_catalog(cat2);
\* written = FALSE when write_catalog raises
DecrementStep(written) ==
    /\ pc = "decrement"
    /\ catalog_csv' = IF written THEN write_catalog(DecrementAll(cat, odf)) ELSE catalog_csv
    /\ msg' = IF written THEN "" ELSE "write_catalog raised"
    /\ pc' = "idle"
    /\ odf' = <<>>
    /\ orderer' = <<>>
    /\ do_decrement' = FALSE
    /\ UNCHANGED <<cat, order_log_csv, last_order_csv, people, clock, presses, last_add,
                   harness>>

\* Tools: 'Clear selected history'
OrderToolsClearSelected(sel, readOk) ==
    /\ Press
    /\ msg' = IF safe_read_log(order_log_csv, readOk) = <<>> \/ sel = {}
              THEN "Nothing to clear." ELSE "Cleared log rows for selected items."
    /\ last_add' = NoAdd
    /\ cat # <<>>
    /\ sel \subseteq {TableLabel(cat[k]) : k \in 1..Len(cat)}
    /\ order_log_csv' =
          IF safe_read_log(order_log_csv, readOk) = <<>> \/ sel = {}
          THEN order_log_csv
          ELSE ClearSelectedRows(safe_read_log(order_log_csv, readOk), sel)
    /\ UNCHANGED <<catalog_csv, cat, last_order_csv, people, clock, commit_locals,
                   harness>>

\* Tools: 'Clear ALL history'
OrderToolsClearAll ==
    /\ Press
    /\ msg' = "Cleared entire order history."
    /\ last_add' = NoAdd
    /\ cat # <<>>
    /\ order_log_csv' = EmptyLogFrame
    /\ UNCHANGED <<catalog_csv, cat, last_order_csv, people, clock, commit_locals,
                   harness>>

\* Tools: 'Clear last generated order (screen list only)'
OrderToolsClearLast ==
    /\ Press
    /\ msg' = "Cleared last generated order list."
    /\ last_add' = NoAdd
    /\ cat # <<>>
    /\ last_order_csv' = EmptyLastOrderFrame
    /\ UNCHANGED <<catalog_csv, cat, order_log_csv, people, clock, commit_locals,
                   harness>>

\* ---------------------------------------------------------------- logs tab
\* 'Clear selected': the tab shows its buttons when the log read has rows
LogsClearSelected(sel) ==
    /\ Press
    /\ msg' = IF sel # {} THEN "Cleared log rows for selected items." ELSE "No items selected."
    /\ last_add' = NoAdd
    /\ order_log_csv # <<>>
    /\ sel \subseteq {LogLabel(order_log_csv, order_log_csv[k]) :
                         k \in 1..Len(order_log_csv)}
    /\ order_log_csv' =
          IF sel # {} THEN ClearSelectedRows(order_log_csv, sel) ELSE order_log_csv
    /\ UNCHANGED <<catalog_csv, cat, last_order_csv, people, clock, commit_locals,
                   harness>>

\* 'Clear ALL history'
LogsClearAll ==
    /\ Press
    /\ msg' = "Cleared entire order history."
    /\ last_add' = NoAdd
    /\ order_log_csv # <<>>
    /\ order_log_csv' = EmptyLogFrame
    /\ UNCHANGED <<catalog_csv, cat, last_order_csv, people, clock, commit_locals,
                   harness>>

\* ----------------------------------------------------------- specification
Next ==
    \/ \E up \in Uploads : InitCatalog(up)
    \/ InitCatalogNoUpload
    \/ \E p \in PersonInputs : AddPerson(p)
    \/ \E p \in PersonInputs : RemovePerson(p)
    \/ ReloadCatalog
    \/ \E i \in ItemInputs, p \in ProdInputs, q \in StockInputs : AddItem(i, p, q)
    \/ \E rm \in SUBSET ItemInputs : RemoveSelected(rm)
    \/ \E k \in 1..MaxCat, q \in StockInputs : SaveChanges(k, q)
    \/ \E qtys \in [1..Len(cat) -> QtyInputs], who \in OrdererOptions,
          dec \in BOOLEAN, saved \in BOOLEAN, dt \in 0..1 :
          Generate(qtys, who, dec, saved, dt)
    \/ \E readOk \in BOOLEAN, written \in BOOLEAN, dt \in 0..1 :
          AppendLogStep(readOk, written, dt)
    \/ \E written \in BOOLEAN : DecrementStep(written)
    \/ \E sel \in SUBSET {TableLabel(cat[k]) : k \in 1..Len(cat)}, readOk \in BOOLEAN :
          OrderToolsClearSelected(sel, readOk)
    \/ OrderToolsClearAll
    \/ OrderToolsClearLast
    \/ \E sel \in SUBSET {LogLabel(order_log_csv, order_log_csv[k]) :
                              k \in 1..Len(order_log_csv)} : LogsClearSelected(sel)
    \/ LogsClearAll

Spec == Init /\ [][Next]_vars

\* ------------------------------------------------- clean_catalog on sheets
\* the name column of block b: names "a1", "a2", ... for block 1, "b1", ... for
\* block 2; "blank" leaves row 1 empty, "spaced" writes row 1 with two inner
\* spaces, "repeat" gives row 2 the name of row 1
BlockLetter(b) == IF b = 1 THEN "a" ELSE "b"

NameCell(b, variant, r) ==
    IF variant = "blank" /\ r = 1 THEN NA
    ELSE IF variant = "spaced" /\ r = 1 THEN StrPN(<<BlockLetter(b), " ", " ">> \o NatStr(r))
    ELSE IF variant = "repeat" /\ r = 2 THEN StrPN(<<BlockLetter(b)>> \o NatStr(1))
    ELSE StrPN(<<BlockLetter(b)>> \o NatStr(r))

\* the product-number column of block b, every row holding the number b: "text"
\* has a word in its last row (read_csv then reads the whole column as text),
\* "short" holds numbers in its first MinNumeric - 1 rows only
NumberCell(b, variant, r) ==
    IF variant = "text"
    THEN IF r = SheetRows THEN StrPN(<<"x">>) ELSE StrPN(NatStr(b))
    ELSE IF variant = "short" /\ r >= MinNumeric THEN NA
    ELSE IntPN(b)

NameVariants == {"plain", "blank", "spaced", "repeat"}

NumberVariants == {"full", "text", "short"}

\* a block: a name column, gap description columns, a product-number column
Blocks(b) ==
    {[names |-> [r \in 1..SheetRows |-> NameCell(b, nv, r)],
      gap |-> g,
      nums |-> [r \in 1..SheetRows |-> NumberCell(b, pv, r)]] :
        nv \in NameVariants, g \in {0, 1}, pv \in NumberVariants}

\* the sheets of n blocks, block b drawn from Blocks(b)
RECURSIVE BlockListsOf(_)
BlockListsOf(n) ==
    IF n = 0 THEN {<<>>}
    ELSE {Append(bl, b) : bl \in BlockListsOf(n - 1), b \in Blocks(n)}

DescColumn == [r \in 1..SheetRows |-> StrPN(<<"d">>)]

\* the columns of the sheet pd.read_csv hands to clean_catalog
RECURSIVE SheetOf(_)
SheetOf(blocks) ==
    IF blocks = <<>> THEN <<>>
    ELSE (IF Head(blocks).gap = 1
          THEN <<Head(blocks).names, DescColumn, Head(blocks).nums>>
          ELSE <<Head(blocks).names, Head(blocks).nums>>) \o SheetOf(Tail(blocks))

InitClean ==
    /\ InitApp
    /\ call \in {[fn |-> "clean_catalog", blocks |-> bl] :
                    bl \in UNION {BlockListsOf(n) : n \in 1..MaxBlocks}}
    /\ result = Pending

\* tidy = clean_catalog(raw)
CleanCatalogCall ==
    /\ call.fn = "clean_catalog"
    /\ result = Pending
    /\ result' = clean_catalog(SheetOf(call.blocks))
    /\ UNCHANGED <<files, cat, clock, presses, msg, last_add, commit_locals, call>>

NextClean == CleanCatalogCall

SpecClean == InitClean /\ [][NextClean]_vars

\* ---------------------------------------------- last_order_info_map on logs
LogRowInputs ==
    {[item |-> <<"a">>, product_number |-> pn, qty |-> q, ordered_at |-> t,
      orderer |-> <<"A">>] :
        pn \in {IntPN(1), IntPN(2), NA}, q \in {1, 2}, t \in {BadStamp} \cup 1..MaxClock}

InitLOI ==
    /\ InitApp
    /\ call \in {[fn |-> "last_order_info_map", logs |-> l] :
                    l \in UNION {[1..n -> LogRowInputs] : n \in 0..MaxLog}}
    /\ result = Pending

\* last_info = last_order_info_map()
LastOrderInfoCall ==
    /\ call.fn = "last_order_info_map"
    /\ result = Pending
    /\ result' \in last_order_info_map(call.logs)
    /\ UNCHANGED <<files, cat, clock, presses, msg, last_add, commit_locals, call>>

NextLOI == LastOrderInfoCall

SpecLOI == InitLOI /\ [][NextLOI]_vars

\* ------------------------------------------ clear-selected on a kept history
\* the keys of the catalog rows and log entries on file when a clear is pressed:
\* numbered items and an item whose product number was saved as missing
ClearKeys == {<<<<"a">>, IntPN(1)>>, <<<<"b">>, IntPN(1)>>, <<<<"a">>, NA>>}

\* a catalog file of rows with keys ks[1], ks[2], ... as clean_catalog numbers them
CatalogOfKeys(ks) ==
    [k \in 1..Len(ks) |->
        [item |-> ks[k][1], product_number |-> ks[k][2],
         current_qty |-> 0, sort_order |-> k - 1]]

\* a log entry of orderer "A" for key, as append_log writes it at time t
LogEntryOf(key, t) ==
    [item |-> key[1], product_number |-> key[2], qty |-> 2,
     ordered_at |-> Strftime(t), orderer |-> <<"A">>]

\* a session that finds a catalog and an order history on disk: the catalog rows
\* have distinct keys, the log entries are distinct and in the order of their
\* timestamps, and the first run has cached read_catalog()
InitClear ==
    /\ \E n \in 1..MaxCat :
          \E ks \in [1..n -> ClearKeys] :
              /\ \A i, j \in 1..n : ks[i] = ks[j] => i = j
              /\ catalog_csv = CatalogOfKeys(ks)
    /\ cat = read_catalog(catalog_csv)
    /\ \E n \in 0..MaxLog :
          \E ks \in [1..n -> ClearKeys], ts \in [1..n -> 1..MaxClock] :
              /\ \A i, j \in 1..n : i < j => ts[i] <= ts[j]
              /\ \A i, j \in 1..n : (ks[i] = ks[j] /\ ts[i] = ts[j]) => i = j
              /\ order_log_csv = [k \in 1..n |-> LogEntryOf(ks[k], ts[k])]
    /\ last_order_csv = <<>>
    /\ people = << <<"A">> >>
    /\ clock = MaxClock
    /\ presses = 0
    /\ msg = ""
    /\ last_add = NoAdd
    /\ pc = "idle"
    /\ odf = <<>>
    /\ orderer = <<>>
    /\ do_decrement = FALSE
    /\ call = NoCall
    /\ result = Pending

NextClear ==
    \/ \E sel \in SUBSET {TableLabel(cat[k]) : k \in 1..Len(cat)}, readOk \in BOOLEAN :
          OrderToolsClearSelected(sel, readOk)
    \/ \E sel \in SUBSET {LogLabel(order_log_csv, order_log_csv[k]) :
                              k \in 1..Len(order_log_csv)} : LogsClearSelected(sel)

SpecClear == InitClear /\ [][NextClear]_vars

\* ================================================================== claims
\* the batch recorded by the last-order snapshot
SnapshotBatch ==
    [k \in 1..Len(last_order_csv) |->
        [item |-> last_order_csv[k].item,
         product_number |-> last_order_csv[k].product_number,
         qty |-> last_order_csv[k].qty]]

\* C3: in every reachable state every persisted catalog row has current_qty >= 0;
\* a decrement by more than the stock held leaves 0, never a negative value.
C3_QtyNeverNegative ==
    \A k \in 1..Len(catalog_csv) : catalog_csv[k].current_qty >= 0

\* a commit with decrement has written the catalog, and a line that ordered more
\* than the positive stock of its row left that row at 0
C3_Witness ==
    /\ pc = "idle"
    /\ last_order_csv # <<>>
    /\ catalog_csv = write_catalog(DecrementAll(cat, SnapshotBatch))
    /\ \E k \in 1..Len(cat), j \in 1..Len(SnapshotBatch) :
          /\ cat[k].item = SnapshotBatch[j].item
          /\ cat[k].product_number = SnapshotBatch[j].product_number
          /\ cat[k].current_qty > 0
          /\ SnapshotBatch[j].qty > cat[k].current_qty
          /\ catalog_csv[k].current_qty = 0

\* C5: a press of either generate button on a rejected order (no row with qty > 0,
\* or no orderer) leaves the order log, the catalog and the last-order snapshot as
\* they were and starts no commit.
C5_RejectedOrderChangesNothing ==
    [][\A dt \in 0..1 :
          (pc = "idle" /\ clock' = clock + dt) =>
              \A who \in OrdererOptions, dec \in BOOLEAN, saved \in BOOLEAN :
                  /\ Generate([k \in 1..Len(cat) |-> 0], who, dec, saved, dt) =>
                         /\ UNCHANGED <<order_log_csv, catalog_csv, last_order_csv>>
                         /\ pc' = "idle"
                  /\ NoOrderer(people, who) =>
                         \A qtys \in [1..Len(cat) -> QtyInputs] :
                             Generate(qtys, who, dec, saved, dt) =>
                                 /\ UNCHANGED <<order_log_csv, catalog_csv, last_order_csv>>
                                 /\ pc' = "idle"]_vars

\* a generate button was pressed with quantities but no orderer, and was refused
C5_Witness ==
    /\ msg = "Please add/select an orderer in the sidebar first."
    /\ people = <<>>
    /\ cat # <<>>
    /\ pc = "idle"

\* s is an initial segment of t
IsPrefix(s, t) == Len(s) <= Len(t) /\ SubSeq(t, 1, Len(s)) = s

\* C1: an append_log call on the log as read adds to the log's length exactly one
\* for each new entry that differs from every row already in the log, and nothing
\* for an entry equal in all five fields to a row already there.
C1_AppendCountsNewRows ==
    [][\A dt \in 0..1 :
          AppendLogStep(TRUE, TRUE, dt) =>
              Len(order_log_csv') =
                  Len(order_log_csv)
                  + Cardinality(Range(LogRows(odf, orderer, clock')) \ Range(order_log_csv))]_vars

\* C2: every distinct row of the log before an append_log call is in the log after
\* it, in the same relative order and ahead of the appended rows, whether or not
\* the log file could be read.
C2_AppendKeepsRows ==
    [][\A readOk \in BOOLEAN, written \in BOOLEAN, dt \in 0..1 :
          AppendLogStep(readOk, written, dt) =>
              IsPrefix(DropDupFirst(order_log_csv, order_log_csv), order_log_csv')]_vars

\* the rows of a catalog file holding the key that the text (item, prod) is saved as
RowsOfKey(file, item, prod) ==
    {k \in 1..Len(file) :
        file[k].item = item /\ file[k].product_number = ToInt64(StrPN(prod))}

\* C4: an accepted 'Add item' that directly follows an accepted 'Add item' of the
\* same (item, product_number) with a different quantity leaves exactly one
\* persisted row for that key, carrying the second quantity.
C4_SecondAddOverwrites ==
    [][\A i \in ItemInputs, p \in ProdInputs, q \in StockInputs :
          (/\ AddItem(i, p, q)
           /\ msg = "Added" /\ msg' = "Added"
           /\ last_add.item = Strip(i) /\ last_add.prod = Strip(p)
           /\ last_add.qty # q) =>
              /\ Cardinality(RowsOfKey(catalog_csv', Strip(i), Strip(p))) = 1
              /\ \A k \in RowsOfKey(catalog_csv', Strip(i), Strip(p)) :
                    catalog_csv'[k].current_qty = q]_vars

\* the rows of a catalog file that a batch line is matched with
RowsOfLine(file, r) ==
    {k \in 1..Len(file) :
        file[k].item = r.item
        /\ PNStr(file[k].product_number) = PNStr(r.product_number)}

\* C6: a commit with decrement leaves each catalog item matched by one batch line
\* (item, product_number, q), and persisted with current_qty c, persisted with
\* current_qty max(0, c - q).
C6_DecrementFromPersisted ==
    [][DecrementStep(TRUE) =>
          \A j \in 1..Len(odf) :
              (/\ Cardinality(RowsOfLine(catalog_csv, odf[j])) = 1
               /\ Cardinality(RowsOfLine(odf, odf[j])) = 1) =>
                  /\ Cardinality(RowsOfLine(catalog_csv', odf[j])) = 1
                  /\ \A k \in RowsOfLine(catalog_csv, odf[j]),
                        m \in RowsOfLine(catalog_csv', odf[j]) :
                        catalog_csv'[m].current_qty =
                            IF catalog_csv[k].current_qty - odf[j].qty < 0 THEN 0
                            ELSE catalog_csv[k].current_qty - odf[j].qty]_vars

\* every line of the batch has a row in the log under the batch's orderer
BatchLogged(batch, who) ==
    \A j \in 1..Len(batch) :
        \E k \in 1..Len(order_log_csv) :
            /\ order_log_csv[k].item = batch[j].item
            /\ order_log_csv[k].product_number = batch[j].product_number
            /\ order_log_csv[k].qty = batch[j].qty
            /\ order_log_csv[k].orderer = who

\* C7: a commit writes the snapshot, then appends to the log, then decrements:
\* once the snapshot is written the next step is the log append, the decrement
\* starts only from a completed append with the batch in the log, and no outcome
\* of the decrement step changes the log.
C7_CommitOrder ==
    /\ [](pc = "decrement" => BatchLogged(odf, orderer))
    /\ [](pc \in {"append_log", "decrement"} =>
             last_order_csv = LastOrderRows(odf, orderer, last_order_csv[1].generated_at))
    /\ [][(pc = "idle" /\ pc' # "idle") =>
             (pc' = "append_log" /\ last_order_csv' = LastOrderRows(odf', orderer', clock'))]_vars
    /\ [][pc = "append_log" =>
             \E readOk \in BOOLEAN, written \in BOOLEAN, dt \in 0..1 :
                 AppendLogStep(readOk, written, dt)]_vars
    /\ [][(last_order_csv' # last_order_csv /\ last_order_csv' # EmptyLastOrderFrame) =>
             pc' = "append_log"]_vars
    /\ [][pc' = "decrement" => pc = "append_log"]_vars
    /\ [][(pc # "idle" /\ catalog_csv' # catalog_csv) => pc = "decrement"]_vars
    /\ [][pc = "decrement" =>
             (order_log_csv' = order_log_csv /\ last_order_csv' = last_order_csv)]_vars

\* the decrement of a commit failed after its batch was appended to the log
C7_Witness ==
    /\ msg = "write_catalog raised"
    /\ last_order_csv # <<>>
    /\ BatchLogged(SnapshotBatch, last_order_csv[1].orderer)
    /\ catalog_csv = cat

\* C9: 'Clear ALL history', in the order tab or the logs tab, leaves the order
\* log with no entries and leaves the catalog and the people list as they were.
C9_ClearAllFrame ==
    [][(OrderToolsClearAll \/ LogsClearAll) =>
          /\ order_log_csv' = <<>>
          /\ catalog_csv' = catalog_csv
          /\ people' = people]_vars

\* the whole history was cleared while a catalog and a people list were on file
C9_Witness ==
    /\ msg = "Cleared entire order history."
    /\ order_log_csv = <<>>
    /\ last_order_csv # <<>>
    /\ catalog_csv # <<>>
    /\ people # <<>>

\* the rows the frame read from a log must give: for each key with a parseable
\* entry, the greatest ordered_at of its entries and the qty of the last entry in
\* the log that has it
KeysWithStamp(logs) ==
    {<<r.item, r.product_number>> : r \in Range(ParseableRows(logs))}

ExpectedInfo(logs, key) ==
    LET idx == {k \in 1..Len(logs) :
                   /\ logs[k].ordered_at # BadStamp
                   /\ <<logs[k].item, logs[k].product_number>> = key}
        tmax == MaxOf({logs[k].ordered_at : k \in idx})
        last == MaxOf({k \in idx : logs[k].ordered_at = tmax})
    IN  [item |-> key[1], product_number |-> key[2],
         last_ordered_at |-> tmax, last_qty |-> logs[last].qty]

\* C8: for a log whose rows all carry a product number, last_order_info_map
\* returns exactly one row per (item, product_number) that has an entry with a
\* parseable timestamp, with the key's greatest timestamp and the qty of the
\* entry holding it, the later entry in the log among entries tied on it;
\* entries with unparseable timestamps are ignored.
C8_LastOrderInfo ==
    (/\ call.fn = "last_order_info_map"
     /\ result # Pending
     /\ \A k \in 1..Len(call.logs) : call.logs[k].product_number # NA) =>
        /\ Len(result) = Cardinality(KeysWithStamp(call.logs))
        /\ Range(result) =
               {ExpectedInfo(call.logs, key) : key \in KeysWithStamp(call.logs)}

\* the valid rows of every block, in block order
RECURSIVE BlockRowsOf(_)
BlockRowsOf(blocks) ==
    IF blocks = <<>> THEN <<>>
    ELSE PairRows(<<Head(blocks).names, Head(blocks).nums>>, 1, 2)
             \o BlockRowsOf(Tail(blocks))

\* C10: for a sheet built from name/product-number blocks whose number columns
\* all reach the numeric threshold, clean_catalog emits one tidy row for each row
\* of each block with a name and a parseable number (less exact duplicates) and
\* no other row, each with sort_order equal to its 0-based place.
C10_OneRowPerBlockRow ==
    (/\ call.fn = "clean_catalog"
     /\ result # Pending
     /\ \A b \in 1..Len(call.blocks) : IsProductColumn(call.blocks[b].nums)) =>
        result = TidyFrame(BlockRowsOf(call.blocks))

\* C11: in every reachable state no two rows of the persisted catalog share the
\* same (item, product_number) pair, whether the file was written by the catalog
\* initialisation, by 'Add item' or by any other write_catalog.
C11_CatalogKeysUnique ==
    \A j, k \in 1..Len(catalog_csv) :
        CatKey(catalog_csv[j]) = CatKey(catalog_csv[k]) => j = k

\* the (item, product_number) pairs of the rows of a frame that carry a label of sel
PairsOfTable(c, sel) == {CatKey(c[k]) : k \in {j \in 1..Len(c) : TableLabel(c[j]) \in sel}}

PairsOfLog(logs, sel) ==
    {CatKey(logs[k]) : k \in {j \in 1..Len(logs) : LogLabel(logs, logs[j]) \in sel}}

\* the log without the entries of the pairs
WithoutPairs(logs, pairs) ==
    Filter(logs, [k \in 1..Len(logs) |-> CatKey(logs[k]) \notin pairs])

\* C12: 'Clear selected', in the order tab's tools (with the log read) or in the
\* logs tab, leaves the order log holding exactly the entries whose
\* (item, product_number) is none of the selected pairs, unchanged and in their
\* earlier order.
C12_ClearSelectedByKey ==
    /\ [][\A sel \in SUBSET {TableLabel(cat[k]) : k \in 1..Len(cat)} :
             OrderToolsClearSelected(sel, TRUE) =>
                 order_log_csv' = WithoutPairs(order_log_csv, PairsOfTable(cat, sel))]_vars
    /\ [][\A sel \in SUBSET {LogLabel(order_log_csv, order_log_csv[k]) :
                                 k \in 1..Len(order_log_csv)} :
             LogsClearSelected(sel) =>
                 order_log_csv' = WithoutPairs(order_log_csv, PairsOfLog(order_log_csv, sel))]_vars

\* C13: in every reachable state every persisted catalog row has a product number
\* that is not missing, and an accepted 'Add item' leaves a persisted row holding
\* the item with the product number that was typed, numeric or not.
C13_ProductNumberPresent ==
    /\ [](\A k \in 1..Len(catalog_csv) : catalog_csv[k].product_number # NA)
    /\ [][\A i \in ItemInputs, p \in ProdInputs, q \in StockInputs :
             (AddItem(i, p, q) /\ msg' = "Added") =>
                 \E k \in 1..Len(catalog_csv') :
                     /\ catalog_csv'[k].item = Strip(i)
                     /\ PNStr(catalog_csv'[k].product_number) = Strip(p)]_vars

\* the rows of the catalog file outside the targets are rows of the file written
RowsKept(file, written, targets) ==
    \A k \in (1..Len(file)) \ targets : \E m \in 1..Len(written) : written[m] = file[k]

\* C14: each catalog-writing action ('Add item', 'Remove selected', 'Save changes',
\* the decrement of a commit) leaves every row of the persisted catalog that it
\* does not target in the catalog file with the same values, also when earlier
\* actions of the session wrote the file and no reload was pressed since. The
\* statement is for catalog files whose rows have distinct keys.
C14_WritesKeepOtherRows ==
    [][C11_CatalogKeysUnique =>
       /\ \A i \in ItemInputs, p \in ProdInputs, q \in StockInputs :
             (AddItem(i, p, q) /\ msg' = "Added") =>
                 RowsKept(catalog_csv, catalog_csv', RowsOfKey(catalog_csv, Strip(i), Strip(p)))
       /\ \A rm \in SUBSET ItemInputs :
             RemoveSelected(rm) =>
                 RowsKept(catalog_csv, catalog_csv',
                          {k \in 1..Len(catalog_csv) : catalog_csv[k].item \in rm})
       /\ \A k \in 1..MaxCat, q \in StockInputs :
             SaveChanges(k, q) =>
                 RowsKept(catalog_csv, catalog_csv',
                          {j \in 1..Len(catalog_csv) : CatKey(catalog_csv[j]) = CatKey(cat[k])})
       /\ DecrementStep(TRUE) =>
             RowsKept(catalog_csv, catalog_csv',
                      UNION {RowsOfLine(catalog_csv, odf[j]) : j \in 1..Len(odf)})]_vars

====
